---- MODULE Spec2Model ----
(***************************************************************************)
(* Brewery search service: the SearchController of                         *)
(* src/src/controllers/searchController.ts (the paginating controller,     *)
(* lines 232-523) with the request validators of the search router.        *)
(*                                                                         *)
(* A request is handled in two steps, split at the handler's only          *)
(* suspension point, `await axios.get(...)`: the part before the await     *)
(* (identity check, validation, issuing the fetch) and the part after it   *)
(* (filtering, pagination, response, or the catch block).                  *)
(*                                                                         *)
(* JavaScript values are modelled with their run-time type, because the    *)
(* handlers' behaviour depends on it: `===` compares type and value,       *)
(* `x.toLowerCase()` throws a TypeError unless x is a string, and the      *)
(* upstream JSON decides which type each field has.                        *)
(*                                                                         *)
(* Spec handles one request over every parameter combination and upstream  *)
(* collection; SpecPair and FairSpecPair run two requests through the same *)
(* handlers, interleaved at their awaits, over a smaller workload.         *)
(***************************************************************************)
EXTENDS Integers, Sequences, FiniteSets, TLC

\* ------------------------------------------------------------------ bounds

\* Longest upstream collection a fetch returns.
MaxRecords == 2

\* ------------------------------------------------------- JavaScript values

\* A value is undefined (a missing or null JSON field), a string (a sequence
\* of one-character strings) or a number; NaN is the number parseInt yields
\* when it finds no digits.
Undef == [t |-> "undefined", s |-> <<>>, n |-> 0]
NaN == [t |-> "NaN", s |-> <<>>, n |-> 0]
Str(chars) == [t |-> "string", s |-> chars, n |-> 0]
Num(k) == [t |-> "number", s |-> <<>>, n |-> k]

\* if (v): undefined, NaN, 0 and "" are falsy.
Truthy(v) ==
    \/ v.t = "string" /\ v.s # <<>>
    \/ v.t = "number" /\ v.n # 0

\* a || b
OrElse(a, b) == IF Truthy(a) THEN a ELSE b

\* a === b: same type and same value, NaN equal to nothing.
StrictEq(a, b) == a.t # "NaN" /\ a = b

UpperToLower ==
    [c \in {"A", "B", "E", "G", "H", "J", "M", "N", "O", "P", "R", "S"} |->
        CASE c = "A" -> "a" [] c = "B" -> "b" [] c = "E" -> "e"
          [] c = "G" -> "g" [] c = "H" -> "h" [] c = "J" -> "j"
          [] c = "M" -> "m" [] c = "N" -> "n" [] c = "O" -> "o"
          [] c = "P" -> "p" [] c = "R" -> "r" [] c = "S" -> "s"]

LowerChar(c) == IF c \in DOMAIN UpperToLower THEN UpperToLower[c] ELSE c

\* String.prototype.toLowerCase on the characters of a string.
ToLowerCase(chars) == [i \in 1..Len(chars) |-> LowerChar(chars[i])]

\* String.prototype.includes: q occurs in s as a contiguous substring.
Includes(s, q) ==
    \E k \in 0..(Len(s) - Len(q)) : \A j \in 1..Len(q) : s[k + j] = q[j]

DigitChars == <<"0", "1", "2", "3", "4", "5", "6", "7", "8", "9">>

IsDigit(c) == \E d \in 1..10 : DigitChars[d] = c

DigitValue(c) == (CHOOSE d \in 1..10 : DigitChars[d] = c) - 1

RECURSIVE Digits(_)
Digits(k) ==
    IF k < 10 THEN <<DigitChars[k + 1]>>
    ELSE Digits(k \div 10) \o <<DigitChars[(k % 10) + 1]>>

\* Number.prototype.toString of an integer: its decimal rendering.
NumberToString(k) == IF k < 0 THEN <<"-">> \o Digits(-k) ELSE Digits(k)

RECURSIVE ParseDigits(_, _)
ParseDigits(chars, acc) ==
    IF chars = <<>> \/ ~IsDigit(Head(chars)) THEN acc
    ELSE ParseDigits(Tail(chars), acc * 10 + DigitValue(Head(chars)))

\* parseInt(string): an optional sign, then the longest prefix of digits;
\* NaN when there is no digit.
ParseInt(chars) ==
    LET signed == chars # <<>> /\ Head(chars) \in {"-", "+"}
        body == IF signed THEN Tail(chars) ELSE chars
    IN  IF body = <<>> \/ ~IsDigit(Head(body)) THEN NaN
        ELSE IF signed /\ Head(chars) = "-" THEN Num(-ParseDigits(body, 0))
        ELSE Num(ParseDigits(body, 0))

\* The three outcomes of evaluating a filter callback on one element:
\* true, false, or a thrown TypeError.
T == "true"
F == "false"
X == "throw"

Bool3(b) == IF b THEN T ELSE F

\* a || b with short-circuit: b is evaluated only when a is false.
Or3(a, b) == IF a = X THEN X ELSE IF a = T THEN T ELSE b

\* field.toLowerCase().includes(q): throws unless field is a string.
LowerIncludes(field, q) ==
    IF field.t # "string" THEN X
    ELSE Bool3(Includes(ToLowerCase(field.s), q))

\* field.toLowerCase() === q: throws unless field is a string.
LowerEquals(field, q) ==
    IF field.t # "string" THEN X
    ELSE Bool3(ToLowerCase(field.s) = q)

\* field?.toLowerCase() === f: an absent field compares unequal.
OptLowerEquals(field, f) ==
    IF field.t = "undefined" THEN F ELSE LowerEquals(field, f)

\* field.toString() === q: throws when field is undefined.
ToStringEquals(field, q) ==
    CASE field.t = "undefined" -> X
      [] field.t = "string" -> Bool3(field.s = q)
      [] field.t = "number" -> Bool3(NumberToString(field.n) = q)
      [] OTHER -> Bool3(q = <<"N", "a", "N">>)

\* Array.prototype.filter with a callback that may throw: the first throw
\* aborts the whole filter.
Thrown == [threw |-> TRUE, items |-> <<>>]
Items(seq) == [threw |-> FALSE, items |-> seq]

\* A filter that returns the kept elements last first.
FilterReversed(work, verdicts) ==
    IF work.threw THEN work
    ELSE IF \E i \in 1..Len(work.items) : verdicts[i] = X THEN Thrown
    ELSE LET kept == SelectSeq([i \in 1..Len(work.items) |-> i],
                               LAMBDA i : verdicts[i] = T)
         IN  Items([k \in 1..Len(kept) |-> work.items[kept[Len(kept) + 1 - k]]])

\* verdicts[i] is the callback's outcome on work.items[i].
Filter(work, verdicts) ==
    IF work.threw THEN work
    ELSE IF \E i \in 1..Len(work.items) : verdicts[i] = X THEN Thrown
    ELSE LET kept == SelectSeq([i \in 1..Len(work.items) |-> i],
                               LAMBDA i : verdicts[i] = T)
         IN  Items([k \in 1..Len(kept) |-> work.items[kept[k]]])

\* Array.prototype.slice(start, end) with numbers that may be negative or NaN.
RelativeIndex(v, len) ==
    LET k == IF v.t = "number" THEN v.n ELSE 0
    IN  IF k < 0 THEN (IF len + k < 0 THEN 0 ELSE len + k)
        ELSE IF k > len THEN len ELSE k

Slice(items, start, end) ==
    SubSeq(items, RelativeIndex(start, Len(items)) + 1,
           RelativeIndex(end, Len(items)))

JsSub(a, b) == IF a.t = "number" /\ b.t = "number" THEN Num(a.n - b.n) ELSE NaN
JsMul(a, b) == IF a.t = "number" /\ b.t = "number" THEN Num(a.n * b.n) ELSE NaN
JsAdd(a, b) == IF a.t = "number" /\ b.t = "number" THEN Num(a.n + b.n) ELSE NaN

\* paginate with the page taken as zero-based: start = page * limit.
paginateZeroBased(items, page, limit) ==
    LET start == JsMul(page, limit)
    IN  Slice(items, start, JsAdd(start, limit))

\* paginate with the end of the window included: slice(start, start + limit + 1).
paginateInclusiveEnd(items, page, limit) ==
    LET start == JsMul(JsSub(page, Num(1)), limit)
    IN  Slice(items, start, JsAdd(JsAdd(start, limit), Num(1)))

\* paginate(items, page, limit)
paginate(items, page, limit) ==
    LET start == JsMul(JsSub(page, Num(1)), limit)
    IN  Slice(items, start, JsAdd(start, limit))

\* ----------------------------------------------------- messages and errors

\* Text that is only passed along (never searched): a message or undefined.
NoMsg == [def |-> FALSE, text |-> ""]
Msg(text) == [def |-> TRUE, text |-> text]

\* a || b on such text: undefined and "" are falsy.
OrMsg(a, b) == IF a.def /\ a.text # "" THEN a ELSE b

\* What a rejected axios.get, or a TypeError thrown while filtering, carries:
\* error.response?.status, error.response?.data?.message,
\* error.response?.data?.errors and error.message.
Failure(status, dataMessage, dataErrors, message) ==
    [status |-> status, dataMessage |-> dataMessage,
     dataErrors |-> dataErrors, message |-> message]

\* { response: { status: 500, data: { message: "Server error" } } }
ServerError == Failure(Num(500), Msg("Server error"), NoMsg, NoMsg)
\* new Error("Network error")
NetworkError == Failure(Undef, NoMsg, NoMsg, Msg("Network error"))
\* an AxiosError for a 404 whose body has no message
NotFound ==
    Failure(Num(404), NoMsg, NoMsg, Msg("Request failed with status code 404"))
\* an AxiosError for a 422 whose body carries message and errors
Unprocessable ==
    Failure(Num(422), Msg("Invalid"), Msg("details"),
            Msg("Request failed with status code 422"))

Rejections == {ServerError, NetworkError, NotFound, Unprocessable}

\* The TypeError a filter callback throws: no response, only a message.
TypeError == Failure(Undef, NoMsg, NoMsg, Msg("TypeError"))

\* --------------------------------------------------------------- responses

NoBody ==
    [keys |-> {}, errors |-> <<>>, message |-> NoMsg, error |-> NoMsg,
     results |-> <<>>, total |-> 0]

\* res.status(400).json({ errors: errors.array() })
ErrorsBody(errors) == [NoBody EXCEPT !.keys = {"errors"}, !.errors = errors]

\* res.status(401).json({ message })
MessageBody(message) ==
    [NoBody EXCEPT !.keys = {"message"}, !.message = message]

\* res.status(200).json({ results: paginatedResults, total: results.length })
EnvelopeBody(results, total) ==
    [NoBody EXCEPT !.keys = {"results", "total"},
                   !.results = results, !.total = total]

\* res.status(...).json({ message, error })
FailureBody(message, error) ==
    [NoBody EXCEPT !.keys = {"message", "error"},
                   !.message = message, !.error = error]

Response(status, body) == [status |-> status, body |-> body]

\* The catch block answering 500 whatever the upstream status.
CatchAlways500(error, defaultMessage) ==
    Response(500,
             FailureBody(OrMsg(error.dataMessage, Msg(defaultMessage)),
                         OrMsg(error.dataErrors, error.message)))

\* The catch block shared by every handler.
Catch(error, defaultMessage) ==
    Response(OrElse(error.status, Num(500)).n,
             FailureBody(OrMsg(error.dataMessage, Msg(defaultMessage)),
                         OrMsg(error.dataErrors, error.message)))

\* -------------------------------------------------------------- parameters

sBeer == <<"B", "e", "e", "r">>
sbeer == <<"b", "e", "e", "r">>
sBEER == <<"B", "E", "E", "R">>
sHoppy == <<"H", "o", "p", "p", "y">>
shoppy == <<"h", "o", "p", "p", "y">>
sHigh == <<"H", "i", "g", "h">>
shigh == <<"h", "i", "g", "h">>
sAle == <<"A", "l", "e">>
sPending == <<"P", "e", "n", "d", "i", "n", "g">>
spending == <<"p", "e", "n", "d", "i", "n", "g">>
sShipped == <<"S", "h", "i", "p", "p", "e", "d">>

\* req.user: absent, or the identity the auth middleware attached.
NoUser == [present |-> FALSE, id |-> Undef]
AuthUser(id) == [present |-> TRUE, id |-> id]

\* req.query and req.user of one request.
Request(op, query, type, flavor, status, page, limit, user) ==
    [op |-> op, query |-> query, type |-> type, flavor |-> flavor,
     status |-> status, page |-> page, limit |-> limit, user |-> user]

NoRequest == Request("none", Undef, Undef, Undef, Undef, Undef, Undef, NoUser)

PageParams == {Undef, Str(<<"1">>), Str(<<"2">>), Str(<<"3">>), Str(<<"0">>)}
LimitParams == {Undef, Str(<<"1">>), Str(<<"2">>), Str(<<"-", "5">>)}

\* const { page = "1", limit = "10" } = req.query
DefaultTo(v, chars) == IF v.t = "undefined" THEN Str(chars) ELSE v

\* -------------------------------------------------------------- validation

\* isInt({ min }): an optional sign and a decimal integer without leading
\* zeros, not below min.
IsInt(chars, min) ==
    LET signed == chars # <<>> /\ Head(chars) \in {"-", "+"}
        body == IF signed THEN Tail(chars) ELSE chars
    IN  /\ body # <<>>
        /\ \A i \in 1..Len(body) : IsDigit(body[i])
        /\ Len(body) > 1 => Head(body) # "0"
        /\ ParseInt(chars).n >= min

\* query(name).optional().isInt({ min: 1 }).withMessage(message)
PositiveInt(v, message) ==
    IF v.t = "undefined" \/ IsInt(v.s, 1) THEN <<>> ELSE <<message>>

\* validationResult(req).array(): the violations the route's validators
\* found. The inventory, orders, users and reviews routes validate page and
\* limit; the content route only declares query and type optional.
validationResult(rq) ==
    IF rq.op = "content" THEN <<>>
    ELSE PositiveInt(rq.page, "Page must be a positive integer")
             \o PositiveInt(rq.limit, "Limit must be a positive integer")

\* ------------------------------------------------------------------- state

Reqs == {1}

VARIABLES
    pc,       \* pc[r]: "idle", "awaiting" (axios.get pending), "settled", "done"
    req,      \* req[r]: the request's parameters and caller identity
    fetched,  \* fetched[r]: what the axios.get of request r settled with
    fetches,  \* fetches[r]: how many axios.get calls request r has issued
    res       \* res[r]: the responses written for request r, in order

vars == <<pc, req, fetched, fetches, res>>

\* No failure: the error slot of a fetch that has not rejected.
NoFailure == Failure(Undef, NoMsg, NoMsg, NoMsg)

Pending == [state |-> "pending", data |-> <<>>, error |-> NoFailure]

Init ==
    /\ pc = [r \in Reqs |-> "idle"]
    /\ req = [r \in Reqs |-> NoRequest]
    /\ fetched = [r \in Reqs |-> Pending]
    /\ fetches = [r \in Reqs |-> 0]
    /\ res = [r \in Reqs |-> <<>>]

\* The handler writes a response and returns.
Respond(r, response) ==
    /\ res' = [res EXCEPT ![r] = Append(@, response)]
    /\ pc' = [pc EXCEPT ![r] = "done"]

\* The handler calls axios.get and suspends at the await.
AxiosGet(r) ==
    /\ fetches' = [fetches EXCEPT ![r] = @ + 1]
    /\ pc' = [pc EXCEPT ![r] = "awaiting"]
    /\ UNCHANGED res

\* validation reporting the first violation only.
ValidateFirstOnlyThenGet(r, rq) ==
    IF validationResult(rq) # <<>>
    THEN /\ Respond(r, Response(400, ErrorsBody(<<Head(validationResult(rq))>>)))
         /\ UNCHANGED fetches
    ELSE AxiosGet(r)

\* validation without the `return` after the 400: the handler answers and
\* goes on to the fetch.
ValidateWithoutReturn(r, rq) ==
    IF validationResult(rq) # <<>>
    THEN /\ res' = [res EXCEPT ![r] =
                        Append(@, Response(400, ErrorsBody(validationResult(rq))))]
         /\ fetches' = [fetches EXCEPT ![r] = @ + 1]
         /\ pc' = [pc EXCEPT ![r] = "awaiting"]
    ELSE AxiosGet(r)

\* validation, shared by the handlers: 400 with the violations, or the fetch.
ValidateThenGet(r, rq) ==
    IF validationResult(rq) # <<>>
    THEN /\ Respond(r, Response(400, ErrorsBody(validationResult(rq))))
         /\ UNCHANGED fetches
    ELSE AxiosGet(r)

\* --------------------------------------------------------------- inventory

TasteProfile(primaryFlavor, sweetness, bitterness) ==
    [present |-> TRUE, primaryFlavor |-> primaryFlavor,
     sweetness |-> sweetness, bitterness |-> bitterness]

NoTasteProfile ==
    [present |-> FALSE, primaryFlavor |-> Undef,
     sweetness |-> Undef, bitterness |-> Undef]

InventoryItem(id, name, type, description, tasteProfile) ==
    [id |-> id, name |-> name, type |-> type, description |-> description,
     tasteProfile |-> tasteProfile]

HoppyBeer ==
    InventoryItem(Num(1), Str(<<"H", "o", "p", "p", "y", " ", "B", "e", "e", "r">>),
                  Str(sBeer), Str(<<"A", " ", "h", "o", "p">>),
                  TasteProfile(Str(sHoppy), Undef, Undef))
SweetAle ==
    InventoryItem(Num(2), Str(<<"S", "w", "e", "e", "t", " ", "A", "l", "e">>),
                  Str(sBeer), Str(<<"S", "w", "e", "e", "t">>),
                  TasteProfile(Undef, Str(sHigh), Undef))
\* matches "beer" in its description only, and has no taste profile
Stout ==
    InventoryItem(Num(3), Str(<<"S", "t", "o", "u", "t">>), Str(sAle),
                  Str(<<"d", "a", "r", "k", " ", "b", "e", "e", "r">>),
                  NoTasteProfile)
\* a record without the fields the handler reads
BadItem == InventoryItem(Undef, Undef, Undef, Undef, NoTasteProfile)

InventoryItems == {HoppyBeer, SweetAle, Stout, BadItem}

InventoryQueries == {Undef, Str(sbeer), Str(sBEER)}
InventoryTypes == {Undef, Str(<<>>), Str(sBeer), Str(sbeer)}
InventoryFlavors == {Undef, Str(sHoppy), Str(shoppy), Str(shigh)}

\* The query matched against the name only.
InventoryQueryMatchNameOnly(item, query) ==
    LowerIncludes(item.name, ToLowerCase(query.s))

\* item.name.toLowerCase().includes(q) || item.description.toLowerCase().includes(q)
InventoryQueryMatch(item, query) ==
    Or3(LowerIncludes(item.name, ToLowerCase(query.s)),
        LowerIncludes(item.description, ToLowerCase(query.s)))

\* The type compared without lower-casing the parameter:
\* item.type.toLowerCase() === type
InventoryTypeMatchRawParameter(item, type) == LowerEquals(item.type, type.s)

\* item.type.toLowerCase() === type.toLowerCase()
InventoryTypeMatch(item, type) == LowerEquals(item.type, ToLowerCase(type.s))

\* The flavor filter reading the taste profile without `?.`:
\* item.tasteProfile.primaryFlavor?.toLowerCase() === f || ..., which throws
\* when the record has no taste profile.
InventoryFlavorMatchRequiredProfile(item, flavor) ==
    LET f == ToLowerCase(flavor.s)
    IN  IF ~item.tasteProfile.present THEN X
        ELSE Or3(OptLowerEquals(item.tasteProfile.primaryFlavor, f),
                 Or3(OptLowerEquals(item.tasteProfile.sweetness, f),
                     OptLowerEquals(item.tasteProfile.bitterness, f)))

\* item.tasteProfile?.primaryFlavor?.toLowerCase() === f || ...sweetness... ||
\* ...bitterness...
InventoryFlavorMatch(item, flavor) ==
    LET f == ToLowerCase(flavor.s)
    IN  Or3(OptLowerEquals(item.tasteProfile.primaryFlavor, f),
            Or3(OptLowerEquals(item.tasteProfile.sweetness, f),
                OptLowerEquals(item.tasteProfile.bitterness, f)))

\* The three filters of searchInventory, in the order of the code.
InventoryFilter(data, rq) ==
    LET byQuery ==
            IF Truthy(rq.query)
            THEN Filter(Items(data), [i \in 1..Len(data) |->
                 InventoryQueryMatch(data[i], rq.query)])
            ELSE Items(data)
        byType ==
            IF Truthy(rq.type)
            THEN Filter(byQuery, [i \in 1..Len(byQuery.items) |->
                 InventoryTypeMatch(byQuery.items[i], rq.type)])
            ELSE byQuery
    IN  IF Truthy(rq.flavor)
        THEN Filter(byType, [i \in 1..Len(byType.items) |->
                 InventoryFlavorMatch(byType.items[i], rq.flavor)])
        ELSE byType

\* The tail with total taken after pagination: total: paginatedResults.length.
EnvelopePageTotal(work, rq, defaultMessage) ==
    IF work.threw THEN Catch(TypeError, defaultMessage)
    ELSE LET paginated ==
                 paginate(work.items, ParseInt(DefaultTo(rq.page, <<"1">>).s),
                          ParseInt(DefaultTo(rq.limit, <<"1", "0">>).s))
         IN  Response(200, EnvelopeBody(paginated, Len(paginated)))

\* The tail of every handler: paginate, respond 200; a TypeError thrown
\* while filtering lands in the catch block.
Envelope(work, rq, defaultMessage) ==
    IF work.threw THEN Catch(TypeError, defaultMessage)
    ELSE Response(200,
             EnvelopeBody(paginate(work.items,
                                   ParseInt(DefaultTo(rq.page, <<"1">>).s),
                                   ParseInt(DefaultTo(rq.limit, <<"1", "0">>).s)),
                          Len(work.items)))

\* searchInventory up to the await.
searchInventory(r) ==
    /\ pc[r] = "idle"
    /\ \E query \in InventoryQueries, type \in InventoryTypes,
          flavor \in InventoryFlavors, page \in PageParams, limit \in LimitParams :
          LET rq == Request("inventory", query, type, flavor, Undef, page, limit, NoUser)
          IN  /\ req' = [req EXCEPT ![r] = rq]
              /\ ValidateThenGet(r, rq)
    /\ UNCHANGED fetched

\* searchInventory after the await.
searchInventoryResume(r) ==
    /\ pc[r] = "settled"
    /\ req[r].op = "inventory"
    /\ Respond(r, IF fetched[r].state = "rejected"
                  THEN Catch(fetched[r].error, "Error searching inventory")
                  ELSE Envelope(InventoryFilter(fetched[r].data, req[r]), req[r],
                                "Error searching inventory"))
    /\ UNCHANGED <<req, fetched, fetches>>

\* ------------------------------------------------------------------ orders

Order(id, user, totalPrice, status) ==
    [id |-> id, user |-> user, totalPrice |-> totalPrice, status |-> status]

s1 == <<"1">>
s12 == <<"1", "2">>

\* typed as the Order interface reads, owner as a number
PendingOrder == Order(Num(1), Num(1), Num(11), Str(sPending))
ShippedOrder == Order(Num(2), Num(2), Num(15), Str(sShipped))
\* the upstream sends every field as text
TextOrder ==
    Order(Str(s1), Str(s1), Str(<<"1", "0", ".", "9", "9">>), Str(sPending))
\* owner "12" contains "1"
TwelveOrder == Order(Num(12), Str(s12), Num(7), Str(spending))
\* a record without the fields the handler reads
BadOrder == Order(Undef, Undef, Undef, Undef)

Orders == {PendingOrder, ShippedOrder, TextOrder, TwelveOrder, BadOrder}

OrderQueries == {Undef, Str(s1), Str(s12)}
OrderStatuses == {Undef, Str(sPending), Str(spending)}
OrderUsers == {NoUser, AuthUser(Num(1)), AuthUser(Str(s1))}

\* req.user && order.user === req.user.id
OrderOwned(order, user) == Bool3(user.present /\ StrictEq(order.user, user.id))

\* The scope that also keeps the orders that name no owner.
OrderScopeLoose(data, user) ==
    IF user.present
    THEN Filter(Items(data), [i \in 1..Len(data) |->
                 Bool3(\/ data[i].user.t = "undefined"
                       \/ StrictEq(data[i].user, user.id))])
    ELSE Items(data)

\* if (req.user) results = results.filter(order => ...)
OrderScope(data, user) ==
    IF user.present
    THEN Filter(Items(data), [i \in 1..Len(data) |->
                 OrderOwned(data[i], user)])
    ELSE Items(data)

\* order.id.toString() === q || order.user.toLowerCase().includes(q)
OrderQueryMatch(order, query) ==
    Or3(ToStringEquals(order.id, ToLowerCase(query.s)),
        LowerIncludes(order.user, ToLowerCase(query.s)))

\* order.status.toLowerCase() === status.toLowerCase()
OrderStatusMatch(order, status) ==
    LowerEquals(order.status, ToLowerCase(status.s))

\* The steps of searchOrders with the scope applied last: query, status,
\* then the owner scope.
OrderFilterScopeLast(data, rq) ==
    LET byQuery ==
            IF Truthy(rq.query)
            THEN Filter(Items(data), [i \in 1..Len(data) |->
                 OrderQueryMatch(data[i], rq.query)])
            ELSE Items(data)
        byStatus ==
            IF Truthy(rq.status)
            THEN Filter(byQuery, [i \in 1..Len(byQuery.items) |->
                 OrderStatusMatch(byQuery.items[i], rq.status)])
            ELSE byQuery
    IN  IF rq.user.present
        THEN Filter(byStatus, [i \in 1..Len(byStatus.items) |->
                 OrderOwned(byStatus.items[i], rq.user)])
        ELSE byStatus

\* The scope and the two filters of searchOrders, in the order of the code.
OrderFilter(data, rq) ==
    LET scoped == OrderScope(data, rq.user)
        byQuery ==
            IF Truthy(rq.query)
            THEN Filter(scoped, [i \in 1..Len(scoped.items) |->
                 OrderQueryMatch(scoped.items[i], rq.query)])
            ELSE scoped
    IN  IF Truthy(rq.status)
        THEN Filter(byQuery, [i \in 1..Len(byQuery.items) |->
                 OrderStatusMatch(byQuery.items[i], rq.status)])
        ELSE byQuery

\* searchOrders up to the await.
searchOrders(r) ==
    /\ pc[r] = "idle"
    /\ \E query \in OrderQueries, status \in OrderStatuses,
          page \in PageParams, limit \in LimitParams, user \in OrderUsers :
          LET rq == Request("orders", query, Undef, Undef, status, page, limit, user)
          IN  /\ req' = [req EXCEPT ![r] = rq]
              /\ ValidateThenGet(r, rq)
    /\ UNCHANGED fetched

\* searchOrders after the await.
searchOrdersResume(r) ==
    /\ pc[r] = "settled"
    /\ req[r].op = "orders"
    /\ Respond(r, IF fetched[r].state = "rejected"
                  THEN Catch(fetched[r].error, "Error searching orders")
                  ELSE Envelope(OrderFilter(fetched[r].data, req[r]), req[r],
                                "Error searching orders"))
    /\ UNCHANGED <<req, fetched, fetches>>

\* ------------------------------------------------------------------- users

UserRecord(id, name, email) == [id |-> id, name |-> name, email |-> email]

sjo == <<"j", "o">>
sJO == <<"J", "O">>

Joel ==
    UserRecord(Num(1), Str(<<"J", "o", "e", "l">>),
               Str(<<"j", "o", "e", "l", "@", "x">>))
\* matches "jo" in the email only
Mike ==
    UserRecord(Num(2), Str(<<"M", "i", "k", "e">>),
               Str(<<"m", "j", "o", "@", "x">>))
BadUser == UserRecord(Undef, Undef, Undef)

Users == {Joel, Mike, BadUser}

UserQueries == {Undef, Str(sjo), Str(sJO)}
UserUsers == {NoUser, AuthUser(Num(1))}

\* user.name.toLowerCase().includes(q) || user.email.toLowerCase().includes(q)
UserQueryMatch(user, query) ==
    Or3(LowerIncludes(user.name, ToLowerCase(query.s)),
        LowerIncludes(user.email, ToLowerCase(query.s)))

\* The filter of searchUsers.
UserFilter(data, rq) ==
    IF Truthy(rq.query)
    THEN Filter(Items(data), [i \in 1..Len(data) |->
                 UserQueryMatch(data[i], rq.query)])
    ELSE Items(data)

\* searchUsers with the identity check after validation.
searchUsersValidateFirst(r) ==
    /\ pc[r] = "idle"
    /\ \E query \in UserQueries, page \in PageParams, limit \in LimitParams,
          user \in UserUsers :
          LET rq == Request("users", query, Undef, Undef, Undef, page, limit, user)
          IN  /\ req' = [req EXCEPT ![r] = rq]
              /\ IF validationResult(rq) = <<>> /\ ~user.present
                 THEN /\ Respond(r, Response(401,
                              MessageBody(Msg("Authentication required"))))
                      /\ UNCHANGED fetches
                 ELSE ValidateThenGet(r, rq)
    /\ UNCHANGED fetched

\* searchUsers up to the await: the identity check comes first.
searchUsers(r) ==
    /\ pc[r] = "idle"
    /\ \E query \in UserQueries, page \in PageParams, limit \in LimitParams,
          user \in UserUsers :
          LET rq == Request("users", query, Undef, Undef, Undef, page, limit, user)
          IN  /\ req' = [req EXCEPT ![r] = rq]
              /\ IF ~user.present
                 THEN /\ Respond(r, Response(401,
                              MessageBody(Msg("Authentication required"))))
                      /\ UNCHANGED fetches
                 ELSE ValidateThenGet(r, rq)
    /\ UNCHANGED fetched

\* searchUsers after the await.
searchUsersResume(r) ==
    /\ pc[r] = "settled"
    /\ req[r].op = "users"
    /\ Respond(r, IF fetched[r].state = "rejected"
                  THEN Catch(fetched[r].error, "Error searching users")
                  ELSE Envelope(UserFilter(fetched[r].data, req[r]), req[r],
                                "Error searching users"))
    /\ UNCHANGED <<req, fetched, fetches>>

\* ----------------------------------------------------------------- content

ContentItem(id, title, type, body) ==
    [id |-> id, title |-> title, type |-> type, body |-> body]

sNews == <<"N", "e", "w", "s">>
snews == <<"n", "e", "w", "s">>

AleNews ==
    ContentItem(Num(1), Str(<<"A", "l", "e", " ", "n", "e", "w", "s">>),
                Str(sNews), Str(<<"H", "o", "p", "s">>))
\* matches "news" in the body only
HopBlog ==
    ContentItem(Num(2), Str(<<"H", "o", "p", "s">>), Str(<<"B", "l", "o", "g">>),
                Str(<<"N", "E", "W", "S">>))
BadContent == ContentItem(Undef, Undef, Undef, Undef)

ContentItems == {AleNews, HopBlog, BadContent}

ContentQueries == {Undef, Str(snews)}
ContentTypes == {Undef, Str(snews), Str(sNews)}

\* item.title.toLowerCase().includes(q) || item.body.toLowerCase().includes(q)
ContentQueryMatch(item, query) ==
    Or3(LowerIncludes(item.title, ToLowerCase(query.s)),
        LowerIncludes(item.body, ToLowerCase(query.s)))

\* item.type.toLowerCase() === type.toLowerCase()
ContentTypeMatch(item, type) == LowerEquals(item.type, ToLowerCase(type.s))

\* The two filters of searchContent, in the order of the code.
ContentFilter(data, rq) ==
    LET byQuery ==
            IF Truthy(rq.query)
            THEN Filter(Items(data), [i \in 1..Len(data) |->
                 ContentQueryMatch(data[i], rq.query)])
            ELSE Items(data)
    IN  IF Truthy(rq.type)
        THEN Filter(byQuery, [i \in 1..Len(byQuery.items) |->
                 ContentTypeMatch(byQuery.items[i], rq.type)])
        ELSE byQuery

\* searchContent up to the await.
searchContent(r) ==
    /\ pc[r] = "idle"
    /\ \E query \in ContentQueries, type \in ContentTypes,
          page \in PageParams, limit \in LimitParams :
          LET rq == Request("content", query, type, Undef, Undef, page, limit, NoUser)
          IN  /\ req' = [req EXCEPT ![r] = rq]
              /\ ValidateThenGet(r, rq)
    /\ UNCHANGED fetched

\* searchContent after the await.
searchContentResume(r) ==
    /\ pc[r] = "settled"
    /\ req[r].op = "content"
    /\ Respond(r, IF fetched[r].state = "rejected"
                  THEN Catch(fetched[r].error, "Error searching content")
                  ELSE Envelope(ContentFilter(fetched[r].data, req[r]), req[r],
                                "Error searching content"))
    /\ UNCHANGED <<req, fetched, fetches>>

\* ----------------------------------------------------------------- reviews

Review(id, userId, productId, reviewRating, reviewMessage) ==
    [id |-> id, userId |-> userId, productId |-> productId,
     reviewRating |-> reviewRating, reviewMessage |-> reviewMessage]

s4 == <<"4">>
sgreat == <<"g", "r", "e", "a", "t">>

GreatBeer ==
    Review(Num(1), Num(1), Num(1), Num(4),
           Str(<<"G", "r", "e", "a", "t", " ", "b", "e", "e", "r">>))
\* the upstream sends every field as text
TextReview ==
    Review(Str(<<"2">>), Str(<<"2">>), Str(<<"2">>), Str(<<"3">>),
           Str(<<"O", "k", "a", "y", " ", "a", "l", "e">>))
\* rating 44 contains "4"; the message mentions 4
FortyFour ==
    Review(Num(3), Num(2), Num(1), Num(44), Str(<<"4", " ", "m", "e">>))
\* rating 44 contains "4"; the message does not
Meh == Review(Num(4), Num(3), Num(2), Num(44), Str(<<"M", "e", "h">>))
BadReview == Review(Undef, Undef, Undef, Undef, Undef)

Reviews == {GreatBeer, TextReview, FortyFour, Meh, BadReview}

ReviewQueries == {Undef, Str(sgreat), Str(s4)}

\* The query matched against the message only.
ReviewQueryMatchMessageOnly(review, query) ==
    LowerIncludes(review.reviewMessage, ToLowerCase(query.s))

\* review.reviewMessage.toLowerCase().includes(q) ||
\* review.reviewRating.toString() === q
ReviewQueryMatch(review, query) ==
    Or3(LowerIncludes(review.reviewMessage, ToLowerCase(query.s)),
        ToStringEquals(review.reviewRating, ToLowerCase(query.s)))

\* The filter of searchReviews.
ReviewFilter(data, rq) ==
    IF Truthy(rq.query)
    THEN Filter(Items(data), [i \in 1..Len(data) |->
                 ReviewQueryMatch(data[i], rq.query)])
    ELSE Items(data)

\* searchReviews up to the await.
searchReviews(r) ==
    /\ pc[r] = "idle"
    /\ \E query \in ReviewQueries, page \in PageParams, limit \in LimitParams :
          LET rq == Request("reviews", query, Undef, Undef, Undef, page, limit, NoUser)
          IN  /\ req' = [req EXCEPT ![r] = rq]
              /\ ValidateThenGet(r, rq)
    /\ UNCHANGED fetched

\* searchReviews after the await.
searchReviewsResume(r) ==
    /\ pc[r] = "settled"
    /\ req[r].op = "reviews"
    /\ Respond(r, IF fetched[r].state = "rejected"
                  THEN Catch(fetched[r].error, "Error searching reviews")
                  ELSE Envelope(ReviewFilter(fetched[r].data, req[r]), req[r],
                                "Error searching reviews"))
    /\ UNCHANGED <<req, fetched, fetches>>

\* ---------------------------------------------------------------- upstream

RECURSIVE SeqsUpTo(_, _)
SeqsUpTo(S, k) ==
    IF k = 0 THEN {<<>>}
    ELSE LET shorter == SeqsUpTo(S, k - 1)
         IN  shorter \cup {Append(seq, x) : seq \in shorter, x \in S}

\* The collections the upstream may answer with, per resource.
InventoryCollections == SeqsUpTo(InventoryItems, MaxRecords)
OrderCollections == SeqsUpTo(Orders, MaxRecords)
UserCollections == SeqsUpTo(Users, MaxRecords)
ContentCollections == SeqsUpTo(ContentItems, MaxRecords)
ReviewCollections == SeqsUpTo(Reviews, MaxRecords)

Collections(op) ==
    CASE op = "inventory" -> InventoryCollections
      [] op = "orders" -> OrderCollections
      [] op = "users" -> UserCollections
      [] op = "content" -> ContentCollections
      [] op = "reviews" -> ReviewCollections

\* A fetch that resolves into a buffer shared per resource: the collection
\* also replaces the one held by every other request of the same resource.
axiosResolveSharedBuffer(r) ==
    /\ pc[r] = "awaiting"
    /\ \E data \in Collections(req[r].op) :
          fetched' = [s \in DOMAIN fetched |->
                         IF s = r \/ (fetched[s].state = "resolved"
                                          /\ req[s].op = req[r].op)
                         THEN [state |-> "resolved", data |-> data,
                               error |-> NoFailure]
                         ELSE fetched[s]]
    /\ pc' = [pc EXCEPT ![r] = "settled"]
    /\ UNCHANGED <<req, fetches, res>>

\* The pending axios.get resolves with the whole collection.
axiosResolve(r) ==
    /\ pc[r] = "awaiting"
    /\ \E data \in Collections(req[r].op) :
          fetched' = [fetched EXCEPT ![r] =
                         [state |-> "resolved", data |-> data, error |-> NoFailure]]
    /\ pc' = [pc EXCEPT ![r] = "settled"]
    /\ UNCHANGED <<req, fetches, res>>

\* A rejection answered by one more fetch attempt before giving up.
axiosRejectThenRetry(r) ==
    /\ pc[r] = "awaiting"
    /\ IF fetches[r] < 2
       THEN /\ fetches' = [fetches EXCEPT ![r] = @ + 1]
            /\ UNCHANGED <<pc, req, fetched, res>>
       ELSE /\ \E error \in Rejections :
                  fetched' = [fetched EXCEPT ![r] =
                                 [state |-> "rejected", data |-> <<>>, error |-> error]]
            /\ pc' = [pc EXCEPT ![r] = "settled"]
            /\ UNCHANGED <<req, fetches, res>>

\* The pending axios.get rejects.
axiosReject(r) ==
    /\ pc[r] = "awaiting"
    /\ \E error \in Rejections :
          fetched' = [fetched EXCEPT ![r] =
                         [state |-> "rejected", data |-> <<>>, error |-> error]]
    /\ pc' = [pc EXCEPT ![r] = "settled"]
    /\ UNCHANGED <<req, fetches, res>>

Next ==
    \E r \in Reqs :
        \/ searchInventory(r)
        \/ searchInventoryResume(r)
        \/ searchOrders(r)
        \/ searchOrdersResume(r)
        \/ searchUsers(r)
        \/ searchUsersResume(r)
        \/ searchContent(r)
        \/ searchContentResume(r)
        \/ searchReviews(r)
        \/ searchReviewsResume(r)
        \/ axiosResolve(r)
        \/ axiosReject(r)

Spec == Init /\ [][Next]_vars

\* ------------------------------------------------- two requests in flight

\* The one controller instance serves two requests whose handlers interleave
\* at their awaits.
Pair == {1, 2}

\* The requests the two clients send: one per operation, and two that are
\* answered before any fetch.
PairRequests ==
    {Request("inventory", Undef, Str(sbeer), Undef, Undef, Undef, Str(<<"1">>), NoUser),
     Request("orders", Str(s1), Undef, Undef, Undef, Undef, Undef, AuthUser(Str(s1))),
     Request("users", Str(sjo), Undef, Undef, Undef, Undef, Undef, AuthUser(Num(1))),
     Request("users", Undef, Undef, Undef, Undef, Undef, Undef, NoUser),
     Request("content", Undef, Str(snews), Undef, Undef, Undef, Undef, NoUser),
     Request("reviews", Str(s4), Undef, Undef, Undef, Undef, Undef, NoUser),
     Request("reviews", Undef, Undef, Undef, Undef, Str(<<"0">>), Undef, NoUser)}

\* The records the upstream holds while the two requests run.
PairRecords == {HoppyBeer, TextOrder, BadUser, AleNews, GreatBeer, Meh}

PairRejections == {NetworkError, NotFound}

\* The step of request r stays within this workload.
PairWorkload(r) ==
    /\ req'[r] \in PairRequests
    /\ \A i \in 1..Len(fetched'[r].data) : fetched'[r].data[i] \in PairRecords
    /\ fetched'[r].state = "rejected" => fetched'[r].error \in PairRejections

InitPair ==
    /\ pc = [r \in Pair |-> "idle"]
    /\ req = [r \in Pair |-> NoRequest]
    /\ fetched = [r \in Pair |-> Pending]
    /\ fetches = [r \in Pair |-> 0]
    /\ res = [r \in Pair |-> <<>>]

NextPair ==
    \E r \in Pair :
        \/ searchInventory(r) /\ PairWorkload(r)
        \/ searchInventoryResume(r) /\ PairWorkload(r)
        \/ searchOrders(r) /\ PairWorkload(r)
        \/ searchOrdersResume(r) /\ PairWorkload(r)
        \/ searchUsers(r) /\ PairWorkload(r)
        \/ searchUsersResume(r) /\ PairWorkload(r)
        \/ searchContent(r) /\ PairWorkload(r)
        \/ searchContentResume(r) /\ PairWorkload(r)
        \/ searchReviews(r) /\ PairWorkload(r)
        \/ searchReviewsResume(r) /\ PairWorkload(r)
        \/ axiosResolve(r) /\ PairWorkload(r)
        \/ axiosReject(r) /\ PairWorkload(r)

SpecPair == InitPair /\ [][NextPair]_vars

\* The steps that carry a started request on: its pending axios.get settles
\* (it is fulfilled or rejected), and the event loop runs the continuation
\* of the settled await.
Continue(r) ==
    /\ \/ axiosResolve(r)
       \/ axiosReject(r)
       \/ searchInventoryResume(r)
       \/ searchOrdersResume(r)
       \/ searchUsersResume(r)
       \/ searchContentResume(r)
       \/ searchReviewsResume(r)
    /\ PairWorkload(r)

\* Every pending fetch settles and every settled await is resumed, for each
\* request on its own.
FairSpecPair == SpecPair /\ \A r \in Pair : WF_vars(Continue(r))

\* ================================================================== claims

\* The response of a request that has been answered.
Last(r) == res[r][Len(res[r])]
Answered(r) == pc[r] = "done" /\ res[r] # <<>>
Succeeded(r) == Answered(r) /\ Last(r).status = 200
Data(r) == fetched[r].data

\* The page and limit the handler computes with.
PageOf(rq) == ParseInt(DefaultTo(rq.page, <<"1">>).s).n
LimitOf(rq) == ParseInt(DefaultTo(rq.limit, <<"1", "0">>).s).n

\* A record passes scope and filter: every step the request asks for holds
\* of it.
Passes(rec, rq) ==
    CASE rq.op = "inventory" ->
            /\ Truthy(rq.query) => InventoryQueryMatch(rec, rq.query) = T
            /\ Truthy(rq.type) => InventoryTypeMatch(rec, rq.type) = T
            /\ Truthy(rq.flavor) => InventoryFlavorMatch(rec, rq.flavor) = T
      [] rq.op = "orders" ->
            /\ rq.user.present => OrderOwned(rec, rq.user) = T
            /\ Truthy(rq.query) => OrderQueryMatch(rec, rq.query) = T
            /\ Truthy(rq.status) => OrderStatusMatch(rec, rq.status) = T
      [] rq.op = "users" ->
            Truthy(rq.query) => UserQueryMatch(rec, rq.query) = T
      [] rq.op = "content" ->
            /\ Truthy(rq.query) => ContentQueryMatch(rec, rq.query) = T
            /\ Truthy(rq.type) => ContentTypeMatch(rec, rq.type) = T
      [] rq.op = "reviews" ->
            Truthy(rq.query) => ReviewQueryMatch(rec, rq.query) = T

\* The records of a collection that pass, in upstream order.
Passing(data, rq) == SelectSeq(data, LAMBDA rec : Passes(rec, rq))

\* C1: a successful response of any search operation carries a `total`
\* field, and it equals the number of upstream records that pass scope and
\* filter: a number fixed by the collection, the caller and the filter
\* parameters, whatever page and limit are.
C1_TotalIsFilteredCount ==
    \A r \in Reqs :
        Succeeded(r) =>
            /\ "total" \in Last(r).body.keys
            /\ Last(r).body.total =
                   Cardinality({i \in 1..Len(Data(r)) : Passes(Data(r)[i], req[r])})

\* C1 witness: a filtered search answered with an empty page past the data,
\* its total still counting the one record of two that passed.
C1_Witness ==
    \E r \in Reqs :
        /\ Succeeded(r)
        /\ Truthy(req[r].query)
        /\ Len(Data(r)) = 2
        /\ Last(r).body.total = 1
        /\ Last(r).body.results = <<>>

\* C2: for page >= 1 and limit >= 1 the returned page is exactly the
\* filtered records at offsets [(page-1)*limit, (page-1)*limit + limit),
\* clipped to the filtered sequence: at most limit records, none (and no
\* error) when (page-1)*limit is at or past the end, total unchanged.
C2_PageIsClippedWindow ==
    \A r \in Reqs :
        (Succeeded(r) /\ PageOf(req[r]) >= 1 /\ LimitOf(req[r]) >= 1) =>
            LET items == Passing(Data(r), req[r])
                start == (PageOf(req[r]) - 1) * LimitOf(req[r])
                n == IF start >= Len(items) THEN 0
                     ELSE IF Len(items) - start < LimitOf(req[r])
                          THEN Len(items) - start
                          ELSE LimitOf(req[r])
                results == Last(r).body.results
            IN  /\ Len(results) = n
                /\ n <= LimitOf(req[r])
                /\ \A i \in 1..n : results[i] = items[start + i]
                /\ Last(r).body.total = Len(items)

\* C2 witness: page 3 with limit 1 lies past the end of a filtered sequence
\* of two records: the page is empty and total is still 2.
C2_Witness ==
    \E r \in Reqs :
        /\ Succeeded(r)
        /\ PageOf(req[r]) = 3
        /\ LimitOf(req[r]) = 1
        /\ Last(r).body.total = 2
        /\ Last(r).body.results = <<>>

\* C3: in searchOrders with a caller identity, every returned record has
\* the caller's id as its owner id, whatever query, status, page and limit.
C3_OnlyOwnOrders ==
    \A r \in Reqs :
        (Succeeded(r) /\ req[r].op = "orders" /\ req[r].user.present) =>
            \A i \in 1..Len(Last(r).body.results) :
                Last(r).body.results[i].user = req[r].user.id

\* C3 witness: a caller searching by query gets an order of theirs while
\* the collection holds another owner's order.
C3_Witness ==
    \E r \in Reqs :
        /\ Succeeded(r)
        /\ req[r].op = "orders"
        /\ req[r].user.present
        /\ Truthy(req[r].query)
        /\ Last(r).body.results # <<>>
        /\ \E i \in 1..Len(Data(r)) : Data(r)[i].user # req[r].user.id

\* Two ids are the same id when their decimal renderings agree, so that the
\* text "1" and the number 1 name one owner.
IdText(v) == IF v.t = "number" THEN NumberToString(v.n) ELSE v.s
SameId(a, b) == a.t # "undefined" /\ b.t # "undefined" /\ IdText(a) = IdText(b)

\* C4: the scope step of searchOrders keeps exactly the orders owned by the
\* caller (also when the upstream sends the owner id as text and the caller
\* id is a number) and keeps all orders when there is no caller identity.
\* Stated on searches without query and status, where the filtered set is
\* the scoped set.
C4_ScopeKeepsOwnedOrders ==
    \A r \in Reqs :
        (/\ Succeeded(r)
         /\ req[r].op = "orders"
         /\ ~Truthy(req[r].query)
         /\ ~Truthy(req[r].status)) =>
            Last(r).body.total =
                IF req[r].user.present
                THEN Cardinality({i \in 1..Len(Data(r)) :
                                     SameId(Data(r)[i].user, req[r].user.id)})
                ELSE Len(Data(r))

\* C5: searchUsers without a caller identity answers 401 with
\* { message: "Authentication required" } and never issues a fetch.
C5_UsersNeedIdentity ==
    \A r \in Reqs :
        (req[r].op = "users" /\ ~req[r].user.present) =>
            /\ pc[r] = "done"
            /\ res[r] = <<Response(401, MessageBody(Msg("Authentication required")))>>
            /\ fetches[r] = 0
            /\ fetched[r].state = "pending"

\* C5 witness: the request without identity also carries an invalid page.
C5_Witness ==
    \E r \in Reqs :
        /\ req[r].op = "users"
        /\ ~req[r].user.present
        /\ validationResult(req[r]) # <<>>
        /\ Answered(r)
        /\ Last(r).status = 401

\* What C6 asks of a request whose parameters violate the validators.
EndsWithBadRequest(r) ==
    /\ pc[r] = "done"
    /\ res[r] = <<Response(400, ErrorsBody(validationResult(req[r])))>>
    /\ fetches[r] = 0
    /\ fetched[r].state = "pending"

\* C6 as stated: for every search operation, a request whose validation
\* reports a violation is answered 400 with the complete list of violations
\* and ends there, without fetch, filtering or pagination.
C6_ValidationAlways400 ==
    \A r \in Reqs :
        (req[r].op # "none" /\ validationResult(req[r]) # <<>>) =>
            EndsWithBadRequest(r)

\* C6 amended: the same, except for searchUsers called without a caller
\* identity, which is answered 401 before validation is consulted.
C6_Validation400UnlessUnauthenticatedUsers ==
    \A r \in Reqs :
        (/\ req[r].op # "none"
         /\ validationResult(req[r]) # <<>>
         /\ ~(req[r].op = "users" /\ ~req[r].user.present)) =>
            EndsWithBadRequest(r)

\* C6 witness: page and limit are both invalid and both violations are
\* reported.
C6_Witness ==
    \E r \in Reqs :
        /\ Answered(r)
        /\ Last(r).status = 400
        /\ Len(Last(r).body.errors) = 2
        /\ fetches[r] = 0

\* The fixed message of each operation.
DefaultMessage(op) ==
    CASE op = "inventory" -> "Error searching inventory"
      [] op = "orders" -> "Error searching orders"
      [] op = "users" -> "Error searching users"
      [] op = "content" -> "Error searching content"
      [] op = "reviews" -> "Error searching reviews"

\* C7: when the upstream fetch fails, the status is the upstream status if
\* the failure carries one and 500 otherwise, and the body is
\* { message, error } with the upstream message if present and the
\* operation's fixed text otherwise; { status: 500, data: { message:
\* "Server error" } } gives 500 with error undefined, and a transport error
\* "Network error" gives 500 with the fixed text and error "Network error".
C7_FetchFailureMapping ==
    \A r \in Reqs :
        (pc[r] = "done" /\ fetched[r].state = "rejected") =>
            LET e == fetched[r].error
            IN  /\ Len(res[r]) = 1
                /\ Last(r).status = IF e.status.t = "number" THEN e.status.n ELSE 500
                /\ Last(r).body.keys = {"message", "error"}
                /\ Last(r).body.message =
                       IF e.dataMessage.def THEN e.dataMessage
                       ELSE Msg(DefaultMessage(req[r].op))
                /\ e = ServerError =>
                       Last(r) = Response(500, FailureBody(Msg("Server error"), NoMsg))
                /\ e = NetworkError =>
                       Last(r) = Response(500,
                                     FailureBody(Msg(DefaultMessage(req[r].op)),
                                                 Msg("Network error")))

\* C7 witness: an upstream 404 without a message is passed on as 404 with
\* the fixed text of the operation.
C7_Witness ==
    \E r \in Reqs :
        /\ pc[r] = "done"
        /\ fetched[r].state = "rejected"
        /\ fetched[r].error = NotFound
        /\ Last(r).status = 404
        /\ Last(r).body.message = Msg("Error searching reviews")

\* A record that lacks a field its handler requires.
Malformed(rec, op) ==
    CASE op = "inventory" -> rec.name.t # "string" \/ rec.type.t # "string"
      [] op = "orders" -> rec.id.t = "undefined" \/ rec.status.t # "string"
      [] op = "users" -> rec.name.t # "string" \/ rec.email.t # "string"
      [] op = "content" -> rec.title.t # "string" \/ rec.type.t # "string"
      [] op = "reviews" ->
            rec.reviewMessage.t # "string" \/ rec.reviewRating.t = "undefined"

\* C8: when the upstream collection holds a malformed record, that record
\* is dropped and the request still succeeds with status 200 over the
\* remaining records.
C8_MalformedRecordDropped ==
    \A r \in Reqs :
        (pc[r] = "done" /\ fetched[r].state = "resolved") =>
            /\ Last(r).status = 200
            /\ \A i \in 1..Len(Last(r).body.results) :
                   ~Malformed(Last(r).body.results[i], req[r].op)

\* C9: searchOrders and searchReviews return numeric fields as numbers,
\* also when the upstream sent them as text.
C9_NumericFieldsAreNumbers ==
    \A r \in Reqs :
        Succeeded(r) =>
            \A i \in 1..Len(Last(r).body.results) :
                LET rec == Last(r).body.results[i]
                IN  /\ req[r].op = "orders" =>
                        \A v \in {rec.id, rec.user, rec.totalPrice} : v.t # "string"
                    /\ req[r].op = "reviews" =>
                        \A v \in {rec.id, rec.userId, rec.productId, rec.reviewRating} :
                            v.t # "string"

\* q occurs in s as a contiguous run of characters.
IsSubstring(q, s) == \E i \in 0..Len(s), j \in 0..Len(s) : SubSeq(s, i + 1, j) = q

\* The text of a field, folded to lower case; a field that is no string has
\* no text.
HasText(v) == v.t = "string"
Folded(v) == ToLowerCase(v.s)

\* What C10 asks of an inventory record, criterion by criterion; a criterion
\* is supplied when its parameter is a non-empty string.
SatisfiesInventoryCriteria(item, rq) ==
    /\ Truthy(rq.query) =>
           \/ HasText(item.name) /\ IsSubstring(Folded(rq.query), Folded(item.name))
           \/ /\ HasText(item.description)
              /\ IsSubstring(Folded(rq.query), Folded(item.description))
    /\ Truthy(rq.type) => HasText(item.type) /\ Folded(item.type) = Folded(rq.type)
    /\ Truthy(rq.flavor) =>
           \E v \in {item.tasteProfile.primaryFlavor, item.tasteProfile.sweetness,
                     item.tasteProfile.bitterness} :
               HasText(v) /\ Folded(v) = Folded(rq.flavor)

\* C10: in a successful searchInventory the filtered set holds exactly the
\* records that satisfy every supplied criterion (query: substring of name
\* or description; type: equality; flavor: equality with a taste-profile
\* field); with no criteria it is the whole upstream collection.
C10_InventoryFilterIsConjunction ==
    \A r \in Reqs :
        (Succeeded(r) /\ req[r].op = "inventory") =>
            LET kept == SelectSeq(Data(r), LAMBDA item :
                            SatisfiesInventoryCriteria(item, req[r]))
            IN  /\ InventoryFilter(Data(r), req[r]) = Items(kept)
                /\ Last(r).body.total = Len(kept)
                /\ \A i \in 1..Len(Last(r).body.results) :
                       SatisfiesInventoryCriteria(Last(r).body.results[i], req[r])
                /\ (~Truthy(req[r].query) /\ ~Truthy(req[r].type)
                        /\ ~Truthy(req[r].flavor)) => kept = Data(r)

\* C10 witness: query, type and flavor are all supplied; one record of two
\* is kept, and the other is excluded although it satisfies the type.
C10_Witness ==
    \E r \in Reqs :
        /\ Succeeded(r)
        /\ req[r].op = "inventory"
        /\ Truthy(req[r].query) /\ Truthy(req[r].type) /\ Truthy(req[r].flavor)
        /\ Data(r) = <<SweetAle, HoppyBeer>>
        /\ Last(r).body.total = 1

\* Two parameter values differ at most in letter case.
SameFolded(a, b) == a.t = b.t /\ ToLowerCase(a.s) = ToLowerCase(b.s)

\* The inventory requests that differ from rq at most in the letter case of
\* query, type and flavor.
InventoryCaseVariants(rq) ==
    {v \in {Request("inventory", q, t, f, Undef, rq.page, rq.limit, rq.user) :
                q \in InventoryQueries, t \in InventoryTypes, f \in InventoryFlavors} :
        /\ SameFolded(v.query, rq.query)
        /\ SameFolded(v.type, rq.type)
        /\ SameFolded(v.flavor, rq.flavor)}

\* What searchInventory answers to a request on a fetched collection.
InventoryResponse(data, rq) ==
    Envelope(InventoryFilter(data, rq), rq, "Error searching inventory")

\* C11: searchInventory is case-insensitive in query, type and flavor: on
\* the same upstream collection, every request that differs from the
\* answered one only in the letter case of these parameters gets the same
\* response, hence the same results and the same total.
C11_InventoryIgnoresParameterCase ==
    \A r \in Reqs :
        (pc[r] = "done" /\ req[r].op = "inventory"
             /\ fetched[r].state = "resolved") =>
            \A v \in InventoryCaseVariants(req[r]) :
                /\ InventoryResponse(Data(r), v) = Last(r)
                /\ InventoryResponse(Data(r), v).body.results = Last(r).body.results
                /\ InventoryResponse(Data(r), v).body.total = Last(r).body.total

\* C11 witness: type "Beer", query "BEER" and flavor "Hoppy" keep one record
\* of two, and the request has variants in other letter case.
C11_Witness ==
    \E r \in Reqs :
        /\ Succeeded(r)
        /\ req[r].op = "inventory"
        /\ req[r].type = Str(sBeer)
        /\ req[r].query = Str(sBEER)
        /\ req[r].flavor = Str(sHoppy)
        /\ Len(Data(r)) = 2
        /\ Last(r).body.total = 1
        /\ Cardinality(InventoryCaseVariants(req[r])) > 1

\* What C12 asks of a record: the flavor equals, ignoring case, one of the
\* three taste-profile fields; an absent profile or field matches nothing.
MatchesFlavor(item, flavor) ==
    \E v \in {item.tasteProfile.primaryFlavor, item.tasteProfile.sweetness,
              item.tasteProfile.bitterness} :
        HasText(v) /\ Folded(v) = Folded(flavor)

\* C12: in searchInventory with a flavor, the records kept are exactly
\* those, among the records the query and type steps kept, whose
\* primaryFlavor, sweetness or bitterness equals the flavor ignoring case;
\* a record without taste profile or without a sub-field does not match and
\* causes no error response: the request fails only when the query or type
\* step already failed.
C12_FlavorMatchesAnyTasteField ==
    \A r \in Reqs :
        (pc[r] = "done" /\ req[r].op = "inventory"
             /\ fetched[r].state = "resolved" /\ Truthy(req[r].flavor)) =>
            LET before == InventoryFilter(Data(r), [req[r] EXCEPT !.flavor = Undef])
            IN  IF before.threw THEN Last(r).status = 500
                ELSE /\ Last(r).status = 200
                     /\ Last(r).body.total =
                            Cardinality({i \in 1..Len(before.items) :
                                MatchesFlavor(before.items[i], req[r].flavor)})
                     /\ \A i \in 1..Len(Last(r).body.results) :
                            MatchesFlavor(Last(r).body.results[i], req[r].flavor)

\* C12 witness: flavor "high" over a record without taste profile and a
\* record whose sweetness is "High": the second is the only result.
C12_Witness ==
    \E r \in Reqs :
        /\ Succeeded(r)
        /\ req[r].op = "inventory"
        /\ req[r].flavor = Str(shigh)
        /\ Data(r) = <<Stout, SweetAle>>
        /\ Last(r).body.results = <<SweetAle>>
        /\ Last(r).body.total = 1

\* What C13 asks of an order: the query equals, ignoring case, the decimal
\* string of its id or of its owner id, as a whole.
MatchesOrderToken(order, query) ==
    \/ order.id.t # "undefined" /\ ToLowerCase(IdText(order.id)) = Folded(query)
    \/ order.user.t # "undefined" /\ ToLowerCase(IdText(order.user)) = Folded(query)

\* C13: in searchOrders with a query, an order matches if and only if the
\* query equals the decimal string of its id or of its owner id as a whole
\* token; an order whose id or owner id only contains the query (owner id
\* 12, query "1") does not match. Stated on the successful responses: the
\* total counts exactly the scoped orders that match the token and the
\* status, and every returned order matches the token.
C13_OrderQueryIsExactToken ==
    \A r \in Reqs :
        (Succeeded(r) /\ req[r].op = "orders" /\ Truthy(req[r].query)) =>
            /\ \A i \in 1..Len(Last(r).body.results) :
                   MatchesOrderToken(Last(r).body.results[i], req[r].query)
            /\ Last(r).body.total =
                   Cardinality({i \in 1..Len(Data(r)) :
                       /\ req[r].user.present => OrderOwned(Data(r)[i], req[r].user) = T
                       /\ MatchesOrderToken(Data(r)[i], req[r].query)
                       /\ Truthy(req[r].status) =>
                              OrderStatusMatch(Data(r)[i], req[r].status) = T})

\* What C14 asks of a review: the query is a substring, ignoring case, of
\* its message, or is the decimal string of its rating.
MatchesReview(review, query) ==
    \/ /\ HasText(review.reviewMessage)
       /\ IsSubstring(Folded(query), Folded(review.reviewMessage))
    \/ /\ review.reviewRating.t # "undefined"
       /\ IdText(review.reviewRating) = query.s

\* C14: in searchReviews with a query, the reviews kept are exactly those
\* whose message contains the query ignoring case or whose rating, as a
\* decimal string, equals it; with no query every review is retained. A
\* request is answered with an error only when the collection holds a
\* review without message or rating.
C14_ReviewQueryMatchesMessageOrRating ==
    \A r \in Reqs :
        (pc[r] = "done" /\ req[r].op = "reviews"
             /\ fetched[r].state = "resolved") =>
            IF Truthy(req[r].query)
            THEN IF Last(r).status = 200
                 THEN /\ Last(r).body.total =
                             Cardinality({i \in 1..Len(Data(r)) :
                                 MatchesReview(Data(r)[i], req[r].query)})
                      /\ \A i \in 1..Len(Last(r).body.results) :
                             MatchesReview(Last(r).body.results[i], req[r].query)
                 ELSE \E i \in 1..Len(Data(r)) : Malformed(Data(r)[i], "reviews")
            ELSE /\ Last(r).status = 200
                 /\ Last(r).body.total = Len(Data(r))

\* C14 witness: query "4" over a review rated 4 and a review rated 44 whose
\* message has no 4: only the first is kept.
C14_Witness ==
    \E r \in Reqs :
        /\ Succeeded(r)
        /\ req[r].op = "reviews"
        /\ req[r].query = Str(s4)
        /\ Data(r) = <<GreatBeer, Meh>>
        /\ Last(r).body.total = 1
        /\ Last(r).body.results = <<GreatBeer>>

\* a is a subsequence of b: the elements of a are elements of b at strictly
\* increasing positions.
IsSubsequence(a, b) ==
    \E f \in [1..Len(a) -> 1..Len(b)] :
        /\ \A i \in 1..Len(a) : a[i] = b[f[i]]
        /\ \A i \in 1..Len(a), j \in 1..Len(a) : i < j => f[i] < f[j]

\* C15: for every search operation, results is a subsequence of the
\* upstream collection: scoping, filtering and pagination keep the upstream
\* order and return no upstream record more than once.
C15_ResultsAreSubsequence ==
    \A r \in Reqs :
        Succeeded(r) =>
            /\ IsSubsequence(Last(r).body.results, Data(r))
            /\ Len(Last(r).body.results) <= Last(r).body.total
            /\ Last(r).body.total <= Len(Data(r))

\* C15 witness: a filter keeps two different records and both are returned.
C15_Witness ==
    \E r \in Reqs :
        /\ Succeeded(r)
        /\ Truthy(req[r].query)
        /\ Len(Last(r).body.results) = 2
        /\ Last(r).body.results[1] # Last(r).body.results[2]
        /\ Last(r).body.results = Data(r)

\* The caller's own orders of a collection, in upstream order.
OwnedOnly(data, user) == SelectSeq(data, LAMBDA order : order.user = user.id)

\* C16: in searchOrders with a caller identity the owner scope runs before
\* the query and status steps: the working set the scope leaves holds the
\* caller's orders only, and the response is the one the query and status
\* steps give over the caller's own orders alone, so another caller's order
\* reaches neither predicate (it can neither match nor make one throw).
C16_ScopeBeforePredicates ==
    \A r \in Reqs :
        (pc[r] = "done" /\ req[r].op = "orders"
             /\ fetched[r].state = "resolved" /\ req[r].user.present) =>
            /\ OrderScope(Data(r), req[r].user) =
                   Items(OwnedOnly(Data(r), req[r].user))
            /\ Last(r) =
                   Envelope(OrderFilter(OwnedOnly(Data(r), req[r].user),
                                        [req[r] EXCEPT !.user = NoUser]),
                            req[r], "Error searching orders")

\* C16 witness: the caller "1" searches for "1"; the collection holds an
\* order of theirs and an order of owner 2 on which the query predicate
\* would throw; the answer is 200 with the caller's order.
C16_Witness ==
    \E r \in Reqs :
        /\ Succeeded(r)
        /\ req[r].op = "orders"
        /\ req[r].user = AuthUser(Str(s1))
        /\ req[r].query = Str(s1)
        /\ Data(r) = <<ShippedOrder, TextOrder>>
        /\ OrderQueryMatch(ShippedOrder, req[r].query) = X
        /\ Last(r).body.results = <<TextOrder>>

\* The request passes validation and, for searchUsers, carries an identity.
Admitted(rq) ==
    /\ rq.op # "none"
    /\ validationResult(rq) = <<>>
    /\ rq.op = "users" => rq.user.present

\* C17: a request that passes validation and authorization issues exactly
\* one upstream fetch (and any other request none); nothing is answered
\* while the fetch is pending, a success is answered only from a fulfilled
\* fetch, and a rejected fetch is answered with the error response without
\* another fetch.
C17_ExactlyOneFetch ==
    \A r \in Reqs :
        /\ fetches[r] = IF Admitted(req[r]) THEN 1 ELSE 0
        /\ pc[r] = "awaiting" => fetched[r].state = "pending" /\ res[r] = <<>>
        /\ pc[r] = "settled" => fetched[r].state # "pending" /\ res[r] = <<>>
        /\ Succeeded(r) => fetched[r].state = "resolved"
        /\ (pc[r] = "done" /\ fetched[r].state = "rejected") =>
               /\ Len(res[r]) = 1
               /\ Last(r).body.keys = {"message", "error"}

\* C17 witness: a request whose fetch was rejected has been answered with
\* the error response after one fetch.
C17_Witness ==
    \E r \in Reqs :
        /\ pc[r] = "done"
        /\ fetched[r].state = "rejected"
        /\ fetches[r] = 1
        /\ Len(res[r]) = 1
        /\ Last(r).status = 500

\* The scope and filters of the operation a request names.
FilterOf(data, rq) ==
    CASE rq.op = "inventory" -> InventoryFilter(data, rq)
      [] rq.op = "orders" -> OrderFilter(data, rq)
      [] rq.op = "users" -> UserFilter(data, rq)
      [] rq.op = "content" -> ContentFilter(data, rq)
      [] rq.op = "reviews" -> ReviewFilter(data, rq)

\* The response a handler gives to a request, as a function of the request
\* and of what its own fetch settled with.
Answer(rq, fetch) ==
    IF rq.op = "users" /\ ~rq.user.present
    THEN Response(401, MessageBody(Msg("Authentication required")))
    ELSE IF validationResult(rq) # <<>>
    THEN Response(400, ErrorsBody(validationResult(rq)))
    ELSE IF fetch.state = "rejected"
    THEN Catch(fetch.error, DefaultMessage(rq.op))
    ELSE Envelope(FilterOf(fetch.data, rq), rq, DefaultMessage(rq.op))

\* A step leaves alone every request whose handler does not move.
OthersUntouched ==
    \A r \in Pair :
        pc'[r] = pc[r] =>
            /\ req'[r] = req[r]
            /\ fetched'[r] = fetched[r]
            /\ fetches'[r] = fetches[r]
            /\ res'[r] = res[r]

\* Once settled, what a fetch returned is never changed.
FetchedKept ==
    \A r \in Pair : fetched[r].state # "pending" => fetched'[r] = fetched[r]

\* C18: with two requests in flight, interleaved in any way around their
\* awaits, each request is answered exactly as it is when handled alone on
\* the collection its own fetch returned; no step of one request reads or
\* changes anything of the other, and filtering and pagination leave the
\* fetched collection as it was.
C18_ConcurrentRequestsIndependent ==
    /\ [](\A r \in Pair :
              pc[r] = "done" => res[r] = <<Answer(req[r], fetched[r])>>)
    /\ [][OthersUntouched /\ FetchedKept]_vars

\* C18 witness: both requests ask the same of the same resource, their
\* fetches returned different collections, and each has been answered from
\* its own.
C18_Witness ==
    /\ pc[1] = "done" /\ pc[2] = "done"
    /\ req[1] = req[2]
    /\ req[1].op = "reviews"
    /\ fetched[1].data = <<GreatBeer, Meh>>
    /\ fetched[2].data = <<Meh>>
    /\ Last(1).body.results = <<GreatBeer>>
    /\ Last(2).body.results = <<>>
    /\ Last(2).status = 200

\* What C19 asks of the one response of an answered request.
TerminalResponse(r) ==
    LET rq == req[r]
        response == res[r][1]
    IN  /\ Len(res[r]) = 1
        /\ response = Answer(rq, fetched[r])
        /\ IF rq.op = "users" /\ ~rq.user.present
           THEN response.status = 401 /\ response.body.keys = {"message"}
           ELSE IF validationResult(rq) # <<>>
           THEN response.status = 400 /\ response.body.keys = {"errors"}
           ELSE IF fetched[r].state = "rejected"
           THEN /\ response.status =
                       IF fetched[r].error.status.t = "number"
                       THEN fetched[r].error.status.n ELSE 500
                /\ response.body.keys = {"message", "error"}
           ELSE \/ response.status = 200 /\ response.body.keys = {"results", "total"}
                \/ /\ response.status = 500
                   /\ response.body.keys = {"message", "error"}
                   /\ FilterOf(fetched[r].data, rq).threw

RECURSIVE PagesFrom(_, _, _, _)
PagesFrom(items, limit, first, last) ==
    IF first > last THEN <<>>
    ELSE paginate(items, Num(first), Num(limit))
             \o PagesFrom(items, limit, first + 1, last)

\* ceil(total / limit)
PageCount(total, limit) == (total + limit - 1) \div limit

\* C20: for the filtered sequence of every successful request and its limit
\* >= 1, the pages 1..ceil(total/limit) that paginate returns, concatenated
\* in page order, are the filtered sequence itself; every page before the
\* last holds exactly limit records, the pages after the last are empty, and
\* the page the request asked for is the one it got.
C20_PagesPartitionFiltered ==
    \A r \in Reqs :
        (Succeeded(r) /\ LimitOf(req[r]) >= 1) =>
            LET items == FilterOf(Data(r), req[r]).items
                limit == LimitOf(req[r])
                last == PageCount(Len(items), limit)
            IN  /\ Last(r).body.total = Len(items)
                /\ PagesFrom(items, limit, 1, last) = items
                /\ \A p \in 1..(last - 1) :
                       Len(paginate(items, Num(p), Num(limit))) = limit
                /\ \A p \in (last + 1)..(last + 2) :
                       paginate(items, Num(p), Num(limit)) = <<>>
                /\ PageOf(req[r]) >= 1 =>
                       Last(r).body.results =
                           paginate(items, Num(PageOf(req[r])), Num(limit))

\* C20 witness: two filtered records with limit 1 make two pages; the
\* request asked for page 2 and got the second record alone.
C20_Witness ==
    \E r \in Reqs :
        /\ Succeeded(r)
        /\ LimitOf(req[r]) = 1
        /\ PageOf(req[r]) = 2
        /\ Last(r).body.total = 2
        /\ Data(r)[1] # Data(r)[2]
        /\ Last(r).body.results = <<Data(r)[2]>>

====
